---------------------------- MODULE Spec2Model ----------------------------
(***************************************************************************)
(* Model of src/ddlmod.go: the CREATE TABLE scanner/parser (parseDDL,      *)
(* parseTableName, parseTableFields, parseColumns) and the ddl model with  *)
(* its operations (clone, compile, renameTable, addConstraint,             *)
(* removeConstraint, removeColumn).                                        *)
(*                                                                         *)
(* A Go string is a sequence of one-character strings; the backquote      *)
(* character, which a TLA+ string cannot hold, is written "BQ".  A Go      *)
(* slice is a record [arr, len, cap] pointing into a heap of backing       *)
(* arrays, so that aliasing between slices is part of the state.           *)
(*                                                                         *)
(* Spec runs parseDDL, one step per loop iteration, on generated and       *)
(* sample statements.  SpecModel runs parseDDL on a few statements and     *)
(* then calls the methods of the returned model and of its clones.         *)
(***************************************************************************)
EXTENDS Integers, Sequences, FiniteSets, TLC

VARIABLES strs, si, pos, pc, quote, tableName, bracketLevel, currentField,
          fields, result, err, spins, heap, colHeap, models, last, nops

vars == <<strs, si, pos, pc, quote, tableName, bracketLevel, currentField,
          fields, result, err, spins, heap, colHeap, models, last, nops>>

parserVars == <<si, pos, pc, quote, tableName, bracketLevel, currentField,
                fields, result, err, spins>>

(***************************************************************************)
(* Bounds of the model.                                                    *)
(***************************************************************************)
MaxBody == 5      \* length of the generated table bodies
MaxSpin == 2      \* iterations of a skip loop counted at end of input
MaxOps == 3       \* operations applied to the models after parsing
MaxModels == 2    \* ddl objects alive (the parsed one and its clones)

(***************************************************************************)
(* package strings / strconv / unicode, as used by the source              *)
(***************************************************************************)
Lower == <<"a","b","c","d","e","f","g","h","i","j","k","l","m","n","o","p","q","r","s","t","u","v","w","x","y","z">>
Upper == <<"A","B","C","D","E","F","G","H","I","J","K","L","M","N","O","P","Q","R","S","T","U","V","W","X","Y","Z">>
Digits == <<"0","1","2","3","4","5","6","7","8","9">>

\* the ASCII white space of unicode.IsSpace
IsSpace(c) == c \in {" ", "\t", "\n", "\r", "\f"}

\* the upper-case letter of each lower-case letter
UpperOf == [c \in {Lower[i] : i \in 1..26} |-> Upper[CHOOSE i \in 1..26 : Lower[i] = c]]

ToUpperChar(c) == IF c \in DOMAIN UpperOf THEN UpperOf[c] ELSE c

ToUpper(s) == [i \in 1..Len(s) |-> ToUpperChar(s[i])]

HasPrefix(s, p) == Len(s) >= Len(p) /\ SubSeq(s, 1, Len(p)) = p

\* strings.Index: 0-based offset of the first occurrence, -1 when absent
Index(s, sub) ==
  LET hits == {i \in 0..(Len(s) - Len(sub)) : SubSeq(s, i + 1, i + Len(sub)) = sub}
  IN IF hits = {} THEN -1 ELSE CHOOSE i \in hits : \A j \in hits : i <= j

Contains(s, sub) == Index(s, sub) >= 0

EqualFold(a, b) == ToUpper(a) = ToUpper(b)

\* strings.TrimLeft / TrimRight / Trim with a cutset (a set of characters)
TrimLeftSet(s, cut) ==
  LET keep == {i \in 1..Len(s) : s[i] \notin cut}
  IN IF keep = {} THEN <<>>
     ELSE SubSeq(s, CHOOSE i \in keep : \A j \in keep : i <= j, Len(s))

TrimRightSet(s, cut) ==
  LET keep == {i \in 1..Len(s) : s[i] \notin cut}
  IN IF keep = {} THEN <<>>
     ELSE SubSeq(s, 1, CHOOSE i \in keep : \A j \in keep : i >= j)

Trim(s, cut) == TrimRightSet(TrimLeftSet(s, cut), cut)

TrimSpace(s) == Trim(s, {" ", "\t", "\n", "\r", "\f"})

\* strings.Fields: the maximal runs of non-space characters
RECURSIVE Fields(_)
Fields(s) ==
  LET t == TrimLeftSet(s, {" ", "\t", "\n", "\r", "\f"})
      sp == {i \in 1..Len(t) : IsSpace(t[i])}
      e == IF sp = {} THEN Len(t) + 1 ELSE CHOOSE i \in sp : \A j \in sp : i <= j
  IN IF t = <<>> THEN <<>>
     ELSE <<SubSeq(t, 1, e - 1)>> \o Fields(SubSeq(t, e, Len(t)))

RECURSIVE Join(_, _)
Join(ss, sep) ==
  IF ss = <<>> THEN <<>>
  ELSE IF Len(ss) = 1 THEN ss[1]
  ELSE ss[1] \o sep \o Join(Tail(ss), sep)

\* strings.SplitN(s, sep, 2)
SplitN2(s, sep) ==
  LET i == Index(s, sep)
  IN IF i < 0 THEN <<s>>
     ELSE <<SubSeq(s, 1, i), SubSeq(s, i + Len(sep) + 1, Len(s))>>

\* strings.Split(s, sep)
RECURSIVE Split(_, _)
Split(s, sep) ==
  LET i == Index(s, sep)
  IN IF i < 0 THEN <<s>>
     ELSE <<SubSeq(s, 1, i)>> \o Split(SubSeq(s, i + Len(sep) + 1, Len(s)), sep)

\* strings.Replace(s, old, new, 1)
Replace1(s, old, new) ==
  LET i == Index(s, old)
  IN IF i < 0 THEN s
     ELSE SubSeq(s, 1, i) \o new \o SubSeq(s, i + Len(old) + 1, Len(s))

DigitVal(c) == (CHOOSE i \in 1..10 : Digits[i] = c) - 1

RECURSIVE DecVal(_)
DecVal(s) == IF s = <<>> THEN 0 ELSE 10 * DecVal(SubSeq(s, 1, Len(s) - 1)) + DigitVal(s[Len(s)])

\* strconv.Atoi: an optional sign and at least one decimal digit
Atoi(s) ==
  LET signed == s # <<>> /\ s[1] \in {"+", "-"}
      ds == IF signed THEN Tail(s) ELSE s
      ok == ds # <<>> /\ \A i \in 1..Len(ds) : \E k \in 1..10 : Digits[k] = ds[i]
  IN IF ok
     THEN [ok |-> TRUE, val |-> IF signed /\ s[1] = "-" THEN 0 - DecVal(ds) ELSE DecVal(ds)]
     ELSE [ok |-> FALSE, val |-> 0]

(***************************************************************************)
(* Lexer                                                                   *)
(***************************************************************************)
NUL == "NUL"      \* rune 0, the end-of-input value of next() and peek()

\* Lexer.peek on input s at cursor p
peek(s, p) == IF p >= Len(s) THEN NUL ELSE s[p + 1]

\* cursor after Lexer.next
nextPos(s, p) == IF p >= Len(s) THEN p ELSE p + 1

BT == <<"BQ">>

CREATE_TABLE == <<"C","R","E","A","T","E"," ","T","A","B","L","E">>
CREATE_INDEX == <<"C","R","E","A","T","E"," ","I","N","D","E","X">>

\* fmt.Sprintf("CREATE TABLE `%s`", tableName)
HeadOf(name) == <<"C","R","E","A","T","E"," ","T","A","B","L","E"," ","BQ">> \o name \o BT

\* fmt.Sprintf("`%s`", name)
Quoted(name) == BT \o name \o BT


(***************************************************************************)
(* parseColumns                                                            *)
(***************************************************************************)
\* the three prefixes that make parseColumns skip a field
IsClause(field) ==
  \/ HasPrefix(ToUpper(field), <<"P","R","I","M","A","R","Y"," ","K","E","Y">>)
  \/ HasPrefix(ToUpper(field), <<"C","H","E","C","K">>)
  \/ HasPrefix(ToUpper(field), <<"C","O","N","S","T","R","A","I","N","T">>)

\* a field that parseColumns turns into a column descriptor
IsColumnEntry(f) ==
  LET field == TrimSpace(f)
  IN ~IsClause(field) /\ Len(Fields(field)) >= 2

\* the remainder: the tokens from the third onward, joined by one space
RestOf(f) ==
  LET parts == Fields(TrimSpace(f))
  IN Join(SubSeq(parts, 3, Len(parts)), <<" ">>)

\* the default value of a column whose remainder is rest
DefaultOf(rest) ==
  IF Contains(ToUpper(rest), <<"D","E","F","A","U","L","T">>)
  THEN LET defaultParts == SplitN2(rest, <<"D","E","F","A","U","L","T">>)
       IN IF Len(defaultParts) > 1
          THEN LET defaultValue == TrimSpace(defaultParts[2])
               IN IF ~EqualFold(defaultValue, <<"N","U","L","L">>)
                  THEN [Valid |-> TRUE, String |-> Trim(defaultValue, {"(", ")"})]
                  ELSE [Valid |-> FALSE, String |-> <<>>]
          ELSE [Valid |-> FALSE, String |-> <<>>]
  ELSE [Valid |-> FALSE, String |-> <<>>]

\* data type and length of a column whose declared type token is typ
TypeOf(typ) ==
  LET none == [DataType |-> typ, LengthValid |-> FALSE, Length |-> 0]
  IN IF Contains(typ, <<"(">>)
     THEN LET parts == Split(typ, <<"(">>)
          IN IF Len(parts) > 1
             THEN LET length == Atoi(TrimRightSet(parts[2], {")"}))
                  IN IF length.ok
                     THEN [DataType |-> parts[1], LengthValid |-> TRUE, Length |-> length.val]
                     ELSE none
             ELSE none
     ELSE none

\* the descriptor parseColumns builds for one column entry
ColumnOf(f) ==
  LET parts == Fields(TrimSpace(f))
      rest == RestOf(f)
      ty == TypeOf(parts[2])
      df == DefaultOf(rest)
  IN [Name |-> Trim(parts[1], {"BQ", "'", "\""}),
      DataType |-> ty.DataType,
      ColumnType |-> parts[2],
      PrimaryKey |-> Contains(ToUpper(rest), <<"P","R","I","M","A","R","Y"," ","K","E","Y">>),
      Unique |-> Contains(ToUpper(rest), <<"U","N","I","Q","U","E">>),
      Nullable |-> ~Contains(ToUpper(rest), <<"N","O","T"," ","N","U","L","L">>),
      DefaultValid |-> df.Valid,
      Default |-> df.String,
      LengthValid |-> ty.LengthValid,
      Length |-> ty.Length]

RECURSIVE parseColumns(_)
parseColumns(fs) ==
  IF fs = <<>> THEN <<>>
  ELSE (IF IsColumnEntry(fs[1]) THEN <<ColumnOf(fs[1])>> ELSE <<>>)
       \o parseColumns(Tail(fs))

(***************************************************************************)
(* Slices                                                                  *)
(***************************************************************************)
\* capacity the runtime gives a full slice that append grows by one element
AppendCap(c) == IF c = 0 THEN 1 ELSE 2 * c

\* capacity of a slice built from nil by n appends
RECURSIVE CapAfter(_)
CapAfter(n) ==
  IF n = 0 THEN 0
  ELSE LET c == CapAfter(n - 1) IN IF n - 1 < c THEN c ELSE AppendCap(c)

NilSlice == [arr |-> 0, len |-> 0, cap |-> 0]

\* a backing array of capacity c holding the elements of s, the rest zero values
ArrayOf(s, c) == [i \in 1..c |-> IF i <= Len(s) THEN s[i] ELSE <<>>]

\* the elements of s with element i (1-based) deleted
Without(s, i) == SubSeq(s, 1, i - 1) \o SubSeq(s, i + 1, Len(s))

Min(S) == CHOOSE i \in S : \A j \in S : i <= j

\* the elements a slice shows, read from heap h
Elems(h, sl) == IF sl.len = 0 THEN <<>> ELSE SubSeq(h[sl.arr], 1, sl.len)

ZeroDDL == [head |-> <<>>, fields |-> <<>>, columns |-> <<>>]

(***************************************************************************)
(* Input statements                                                        *)
(***************************************************************************)
BodyAlphabet == {"a", ",", "(", ")", " "}

Bodies == UNION {[1..k -> BodyAlphabet] : k \in 0..MaxBody}

GenStmts == {<<"C","R","E","A","T","E"," ","T","A","B","L","E"," ","BQ","t","BQ","(">> \o b : b \in Bodies}

UsersStmt == <<"C","R","E","A","T","E"," ","T","A","B","L","E"," ","BQ","u","s","e","r","s","BQ"," ","(","BQ","i","d","BQ"," ","I","N","T","E","G","E","R"," ","P","R","I","M","A","R","Y"," ","K","E","Y",","," ","BQ","n","a","m","e","BQ"," ","T","E","X","T"," ","N","O","T"," ","N","U","L","L",","," ","C","O","N","S","T","R","A","I","N","T"," ","BQ","u","q","_","n","a","m","e","BQ"," ","U","N","I","Q","U","E","(","BQ","n","a","m","e","BQ",")",")">>

IndexStmt == <<"C","R","E","A","T","E"," ","I","N","D","E","X"," ","BQ","i","BQ"," ","O","N"," ","BQ","t","BQ","(","BQ","a","BQ",")">>

Samples ==
  { UsersStmt,
    IndexStmt,
    <<"C","R","E","A","T","E"," ","T","A","B","L","E"," ","BQ","t","BQ"," ","(","BQ","a","BQ"," ","D","E","C","I","M","A","L","(","1","0",",","2",")",","," ","BQ","b","BQ"," ","T","E","X","T"," ","C","H","E","C","K"," ","(","BQ","b","BQ"," ","<",">"," ","'","'",")",")">>,
    <<"C","R","E","A","T","E"," ","T","A","B","L","E"," ","BQ","t","BQ"," ","(","BQ","a","BQ"," ","T","E","X","T"," ","D","E","F","A","U","L","T"," ","'","x",","," ","y","'",","," ","BQ","b","BQ"," ","I","N","T",")">>,
    <<"C","R","E","A","T","E"," ","T","A","B","L","E"," ","BQ","t","BQ"," ","(","BQ","a","BQ"," ","T","E","X","T"," ","D","E","F","A","U","L","T"," ","'",")","'",","," ","BQ","b","BQ"," ","I","N","T",")">>,
    <<"C","R","E","A","T","E"," ","T","A","B","L","E"," ","'","p","'"," ","(","BQ","n","BQ"," ","V","A","R","C","H","A","R","(","2","5","5",")",","," ","BQ","m","BQ"," ","C","H","A","R","(","x",")",","," ","BQ","k","BQ"," ","I","N","T","(","+","7",")",")">>,
    <<"C","R","E","A","T","E"," ","T","A","B","L","E"," ","BQ","t","BQ"," ","(","BQ","i","d","BQ"," ","I","N","T","E","G","E","R"," ","N","O","T"," ","N","U","L","L"," ","D","E","F","A","U","L","T"," ","0",","," ","BQ","b","BQ"," ","I","N","T"," ","d","e","f","a","u","l","t"," ","1",","," ","BQ","c","BQ"," ","I","N","T"," ","D","E","F","A","U","L","T"," ","(","(","1",")",")",","," ","BQ","d","BQ"," ","I","N","T"," ","D","E","F","A","U","L","T"," ","N","U","L","L",","," ","BQ","e","BQ"," ","I","N","T"," ","D","E","F","A","U","L","T"," ","(","1",")","+","(","2",")",")">>,
    <<"c","r","e","a","t","e"," ","t","a","b","l","e"," ","BQ","t","BQ"," ","(","a"," ","i","n","t",")">>,
    <<"C","R","E","A","T","E"," ","T","A","B","L","E"," ","\"","a","BQ","b","\""," ","(","x"," ","I","N","T",")">>,
    <<"C","R","E","A","T","E"," ","T","A","B","L","E"," ","u","s","e","r","s">>,
    <<"C","R","E","A","T","E"," ","T","A","B","L","E"," ","BQ","t","BQ">>,
    <<"C","R","E","A","T","E"," ","T","A","B","L","E"," ","BQ","t">>,
    <<"C","R","E","A","T","E"," ","T","A","B","L","E"," ","u","s","e","r","s"," ","(","BQ","i","d","BQ"," ","I","N","T",")">>,
    <<"D","R","O","P"," ","T","A","B","L","E"," ","BQ","t","BQ">> }

StrsSet ==
  {<<s>> : s \in GenStmts \cup Samples}
    \cup { <<>>,
           <<IndexStmt, UsersStmt>>,
           <<UsersStmt, IndexStmt>>,
           <<UsersStmt, <<"C","R","E","A","T","E"," ","T","A","B","L","E"," ","BQ","t","BQ"," ","(","a"," ","I","N","T",")">>>> }

(***************************************************************************)
(* parseDDL, one step per loop iteration                                   *)
(***************************************************************************)
input == strs[si]

Fail(e) ==
  /\ pc' = "failed"
  /\ err' = e

\* lines 118-150: the loop head and the dispatch on the statement's prefix
Dispatch ==
  /\ pc = "stmt"
  /\ si <= Len(strs)
  /\ IF HasPrefix(ToUpper(input), CREATE_TABLE)
     THEN /\ pc' = "skipName"
          /\ pos' = 0
          /\ UNCHANGED <<si, err>>
     ELSE IF HasPrefix(ToUpper(input), CREATE_INDEX)
     THEN /\ si' = si + 1
          /\ UNCHANGED <<pc, pos, err>>
     ELSE /\ Fail(<<"i","n","v","a","l","i","d"," ","D","D","L">>)
          /\ UNCHANGED <<si, pos>>
  /\ UNCHANGED <<strs, quote, tableName, bracketLevel, currentField, fields,
                 result, spins, heap, colHeap, models, last, nops>>

\* lines 159-161 and 98: one iteration of the skip loop of parseTableName,
\* or, at a quote character, the first next() of parseString
SkipName ==
  /\ pc = "skipName"
  /\ IF peek(input, pos) \notin {"BQ", "\"", "'"}
     THEN /\ pos' = nextPos(input, pos)
          /\ spins' = IF pos >= Len(input) THEN (spins + 1) % MaxSpin ELSE spins
          /\ UNCHANGED <<pc, quote, tableName>>
     ELSE /\ quote' = peek(input, pos)
          /\ pos' = nextPos(input, pos)
          /\ tableName' = <<>>
          /\ pc' = "readName"
          /\ UNCHANGED spins
  /\ UNCHANGED <<strs, si, bracketLevel, currentField, fields, result, err,
                 heap, colHeap, models, last, nops>>

\* lines 101-110, 123-128: one iteration of the loop of parseString; at the
\* closing quote parseTableName returns and the head is formatted
ReadName ==
  /\ pc = "readName"
  /\ LET r == peek(input, pos)
     IN IF r = NUL
        THEN /\ Fail(<<"u","n","t","e","r","m","i","n","a","t","e","d"," ","s","t","r","i","n","g">>)
             /\ UNCHANGED <<pos, tableName, result>>
        ELSE IF r = quote
        THEN /\ pos' = nextPos(input, pos)
             /\ result' = [result EXCEPT !.head = HeadOf(tableName)]
             /\ pc' = "skipParen"
             /\ UNCHANGED <<tableName, err>>
        ELSE /\ pos' = nextPos(input, pos)
             /\ tableName' = Append(tableName, r)
             /\ UNCHANGED <<pc, result, err>>
  /\ UNCHANGED <<strs, si, quote, bracketLevel, currentField, fields, spins,
                 heap, colHeap, models, last, nops>>

\* lines 174-183: one iteration of the skip loop of parseTableFields, or, at
\* the opening bracket, its consumption and the start of the body loop
SkipParen ==
  /\ pc = "skipParen"
  /\ IF peek(input, pos) # "("
     THEN /\ pos' = nextPos(input, pos)
          /\ spins' = IF pos >= Len(input) THEN (spins + 1) % MaxSpin ELSE spins
          /\ UNCHANGED <<pc, bracketLevel, currentField, fields>>
     ELSE /\ pos' = nextPos(input, pos)
          /\ bracketLevel' = 1
          /\ currentField' = <<>>
          /\ fields' = <<>>
          /\ pc' = "body"
          /\ UNCHANGED spins
  /\ UNCHANGED <<strs, si, quote, tableName, result, err, heap, colHeap,
                 models, last, nops>>

\* IsSeparator without the test of the nesting counter
IsSeparatorAnyLevel(r, level) == r = ","

\* whether the body loop ends a field at character r
IsSeparator(r, level) == r = "," /\ level = 1

\* lines 185-208: one iteration of the body loop of parseTableFields
Body ==
  /\ pc = "body"
  /\ bracketLevel > 0
  /\ LET r == peek(input, pos)
     IN IF r = NUL
        THEN /\ Fail(<<"u","n","t","e","r","m","i","n","a","t","e","d"," ","t","a","b","l","e"," ","d","e","f","i","n","i","t","i","o","n">>)
             /\ UNCHANGED <<pos, bracketLevel, currentField, fields>>
        ELSE /\ pos' = nextPos(input, pos)
             /\ UNCHANGED err
             /\ IF r = "("
                THEN /\ bracketLevel' = bracketLevel + 1
                     /\ currentField' = Append(currentField, r)
                     /\ UNCHANGED <<fields, pc>>
                ELSE IF r = ")"
                THEN /\ bracketLevel' = bracketLevel - 1
                     /\ IF bracketLevel - 1 = 0
                        THEN /\ fields' = IF Len(currentField) > 0
                                          THEN Append(fields, TrimSpace(currentField))
                                          ELSE fields
                             /\ pc' = "columns"
                             /\ UNCHANGED currentField
                        ELSE /\ currentField' = Append(currentField, r)
                             /\ UNCHANGED <<fields, pc>>
                ELSE IF IsSeparator(r, bracketLevel)
                THEN /\ fields' = Append(fields, TrimSpace(currentField))
                     /\ currentField' = <<>>
                     /\ UNCHANGED <<bracketLevel, pc>>
                ELSE /\ currentField' = Append(currentField, r)
                     /\ UNCHANGED <<bracketLevel, fields, pc>>
  /\ UNCHANGED <<strs, si, quote, tableName, result, spins, heap, colHeap,
                 models, last, nops>>

\* lines 136-144: the fields and the columns are stored in the result
Columns ==
  /\ pc = "columns"
  /\ result' = [result EXCEPT !.fields = fields, !.columns = parseColumns(fields)]
  /\ si' = si + 1
  /\ pc' = "stmt"
  /\ UNCHANGED <<strs, pos, quote, tableName, bracketLevel, currentField,
                 fields, err, spins, heap, colHeap, models, last, nops>>

\* the ddl object for value r, its slices allocated in heaps h and ch
NewDDL(r, h, ch) ==
  [head |-> r.head,
   fields |-> IF r.fields = <<>> THEN NilSlice
              ELSE [arr |-> Len(h) + 1, len |-> Len(r.fields),
                    cap |-> CapAfter(Len(r.fields))],
   columns |-> IF r.columns = <<>> THEN NilSlice
               ELSE [arr |-> Len(ch) + 1, len |-> Len(r.columns),
                     cap |-> CapAfter(Len(r.columns))]]

\* line 153: parseDDL returns the address of the result
Return ==
  /\ pc = "stmt"
  /\ si > Len(strs)
  /\ pc' = "done"
  /\ models' = <<NewDDL(result, heap, colHeap)>>
  /\ heap' = IF result.fields = <<>> THEN heap
             ELSE Append(heap, ArrayOf(result.fields, CapAfter(Len(result.fields))))
  /\ colHeap' = IF result.columns = <<>> THEN colHeap
                ELSE Append(colHeap, ArrayOf(result.columns, CapAfter(Len(result.columns))))
  /\ UNCHANGED <<strs, si, pos, quote, tableName, bracketLevel, currentField,
                 fields, result, err, spins, last, nops>>

NoCall == [op |-> "none"]

InitParser ==
  /\ si = 1
  /\ pos = 0
  /\ pc = "stmt"
  /\ quote = NUL
  /\ tableName = <<>>
  /\ bracketLevel = 0
  /\ currentField = <<>>
  /\ fields = <<>>
  /\ result = ZeroDDL
  /\ err = <<>>
  /\ spins = 0
  /\ heap = <<>>
  /\ colHeap = <<>>
  /\ models = <<>>
  /\ last = NoCall
  /\ nops = 0

Init ==
  /\ strs \in StrsSet
  /\ InitParser

Next ==
  \/ Dispatch
  \/ SkipName
  \/ ReadName
  \/ SkipParen
  \/ Body
  \/ Columns
  \/ Return

Spec == Init /\ [][Next]_vars


(***************************************************************************)
(* The ddl model: a record [head, fields, columns] whose fields and        *)
(* columns are slices into heap and colHeap                                *)
(***************************************************************************)
\* what a ddl object shows: its head and the elements of its two slices
View(h, ch, d) ==
  [head |-> d.head, fields |-> Elems(h, d.fields), columns |-> Elems(ch, d.columns)]

\* clone without the two make/copy pairs: the struct copy alone
cloneShallow(h, ch, d) == [heap |-> h, colHeap |-> ch, d |-> d]

\* lines 281-291: the copy has fresh backing arrays of exactly len elements
clone(h, ch, d) ==
  [heap |-> Append(h, Elems(h, d.fields)),
   colHeap |-> Append(ch, Elems(ch, d.columns)),
   d |-> [head |-> d.head,
          fields |-> [arr |-> Len(h) + 1, len |-> d.fields.len, cap |-> d.fields.len],
          columns |-> [arr |-> Len(ch) + 1, len |-> d.columns.len, cap |-> d.columns.len]]]

\* lines 293-299
compile(h, d) ==
  IF d.fields.len = 0 THEN d.head
  ELSE d.head \o <<" ","(">> \o Join(Elems(h, d.fields), <<",">>) \o <<")">>

\* lines 301-311: the new head and whether an error is returned
renameTable(d, dst, src) ==
  LET oldHead == d.head
      newHead == Replace1(d.head, Quoted(src), Quoted(dst))
  IN [d |-> [d EXCEPT !.head = newHead], failed |-> oldHead = newHead]

\* the condition shared by addConstraint, removeConstraint and hasConstraint
IsConstraintNamed(field, name) ==
  HasPrefix(ToUpper(field), <<"C","O","N","S","T","R","A","I","N","T">>) /\ Contains(field, name)

\* append(sl, x) on heap h: in place when the capacity allows, else a new array
AppendTo(h, sl, x) ==
  IF sl.len < sl.cap
  THEN [heap |-> [h EXCEPT ![sl.arr][sl.len + 1] = x],
        sl |-> [sl EXCEPT !.len = sl.len + 1]]
  ELSE [heap |-> Append(h, ArrayOf(Append(Elems(h, sl), x), AppendCap(sl.cap))),
        sl |-> [arr |-> Len(h) + 1, len |-> sl.len + 1, cap |-> AppendCap(sl.cap)]]

\* append(sl[:i], sl[i+1:]...) on heap h, i 1-based: the tail is moved down
\* inside the same backing array, whose last used slot keeps its old value
RemoveAt(h, sl, i) ==
  [heap |-> [h EXCEPT ![sl.arr] =
               [k \in 1..Len(h[sl.arr]) |->
                  IF k >= i /\ k < sl.len THEN h[sl.arr][k + 1] ELSE h[sl.arr][k]]],
   sl |-> [sl EXCEPT !.len = sl.len - 1]]

\* addConstraint without the test of the name
addConstraintAnyName(h, d, name, sql) ==
  LET fs == Elems(h, d.fields)
      hits == {i \in 1..Len(fs) : HasPrefix(ToUpper(fs[i]), <<"C","O","N","S","T","R","A","I","N","T">>)}
  IN IF hits # {}
     THEN [heap |-> [h EXCEPT ![d.fields.arr][Min(hits)] = sql], d |-> d]
     ELSE LET a == AppendTo(h, d.fields, sql)
          IN [heap |-> a.heap, d |-> [d EXCEPT !.fields = a.sl]]

\* lines 313-322
addConstraint(h, d, name, sql) ==
  LET fs == Elems(h, d.fields)
      hits == {i \in 1..Len(fs) : IsConstraintNamed(fs[i], name)}
  IN IF hits # {}
     THEN [heap |-> [h EXCEPT ![d.fields.arr][Min(hits)] = sql], d |-> d]
     ELSE LET a == AppendTo(h, d.fields, sql)
          IN [heap |-> a.heap, d |-> [d EXCEPT !.fields = a.sl]]

\* lines 324-333
removeConstraint(h, d, name) ==
  LET fs == Elems(h, d.fields)
      hits == {i \in 1..Len(fs) : IsConstraintNamed(fs[i], name)}
  IN IF hits # {}
     THEN LET r == RemoveAt(h, d.fields, Min(hits))
          IN [heap |-> r.heap, d |-> [d EXCEPT !.fields = r.sl], ret |-> TRUE]
     ELSE [heap |-> h, d |-> d, ret |-> FALSE]

\* HasColumnName without the stripping of the quote characters
HasColumnNameNoTrim(field, name) ==
  LET parts == Fields(field)
  IN Len(parts) > 0 /\ parts[1] = name

\* lines 368-371: the name removeColumn compares with, when the field has one
HasColumnName(field, name) ==
  LET parts == Fields(field)
  IN Len(parts) > 0 /\ Trim(parts[1], {"BQ", "'", "\""}) = name

\* lines 366-378
removeColumn(h, d, name) ==
  LET fs == Elems(h, d.fields)
      hits == {i \in 1..Len(fs) : HasColumnName(fs[i], name)}
  IN IF hits # {}
     THEN LET r == RemoveAt(h, d.fields, Min(hits))
          IN [heap |-> r.heap, d |-> [d EXCEPT !.fields = r.sl], ret |-> TRUE]
     ELSE [heap |-> h, d |-> d, ret |-> FALSE]

(***************************************************************************)
(* Calls on the models after parseDDL has returned                         *)
(***************************************************************************)
NewNames == {<<"u","s","e","r","s">>, <<"a","c","c","o","u","n","t","s">>}

OldNames == {<<"u","s","e","r","s">>, <<"g","h","o","s","t">>}

ConstraintNames == {<<"u","q","_","n","a","m","e">>, <<"u","q","_","o","t","h","e","r">>}

ConstraintTexts ==
  { <<"C","O","N","S","T","R","A","I","N","T"," ","BQ","u","q","_","o","t","h","e","r","BQ"," ","U","N","I","Q","U","E","(","BQ","i","d","BQ",")">>,
    <<"C","O","N","S","T","R","A","I","N","T"," ","BQ","u","q","_","n","a","m","e","BQ"," ","C","H","E","C","K"," ","(","BQ","i","d","BQ"," ",">"," ","0",")">> }

ColumnArgs == {<<"i","d">>, <<"n","a","m","e">>, <<"g","h","o","s","t">>}

OtherStmt == <<"C","R","E","A","T","E"," ","T","A","B","L","E"," ","\"","u","s","e","r","s","\""," ","(","'","i","d","'"," ","I","N","T",","," ","c","o","n","s","t","r","a","i","n","t"," ","BQ","u","q","_","n","a","m","e","BQ"," ","U","N","I","Q","U","E","(","BQ","i","d","BQ",")",","," ","\"","i","d","\""," ","T","E","X","T",","," ","C","O","N","S","T","R","A","I","N","T"," ","BQ","u","q","_","n","a","m","e","2","BQ"," ","C","H","E","C","K"," ","(","1",")",","," ","n","a","m","e"," ","T","E","X","T",")">>

ModelStrs ==
  { <<UsersStmt>>,
    <<OtherStmt>>,
    <<IndexStmt>>,
    <<<<"C","R","E","A","T","E"," ","T","A","B","L","E"," ","BQ","t","BQ">>>>,
    <<<<"C","R","E","A","T","E"," ","T","A","B","L","E"," ","u","s","e","r","s">>>>,
    <<<<"C","R","E","A","T","E"," ","T","A","B","L","E"," ","BQ","t","BQ"," ","(">>>>,
    <<<<"C","R","E","A","T","E"," ","T","A","B","L","E"," ","BQ","t">>>>,
    <<<<"D","R","O","P"," ","T","A","B","L","E"," ","BQ","t","BQ">>>> }

\* the views of all models, recorded when a call starts
Views == [i \in 1..Len(models) |-> View(heap, colHeap, models[i])]

CanCall(t) ==
  /\ pc = "done"
  /\ nops < MaxOps
  /\ t \in 1..Len(models)

RenameTable(t, dst, src) ==
  /\ CanCall(t)
  /\ LET r == renameTable(models[t], dst, src)
     IN /\ models' = [models EXCEPT ![t] = r.d]
        /\ last' = [op |-> "renameTable", target |-> t, dst |-> dst, src |-> src,
                    failed |-> r.failed, pre |-> Views]
  /\ nops' = nops + 1
  /\ UNCHANGED <<strs, parserVars, heap, colHeap>>

AddConstraint(t, name, sql) ==
  /\ CanCall(t)
  /\ LET r == addConstraint(heap, models[t], name, sql)
     IN /\ models' = [models EXCEPT ![t] = r.d]
        /\ heap' = r.heap
        /\ last' = [op |-> "addConstraint", target |-> t, name |-> name, sql |-> sql,
                    pre |-> Views]
  /\ nops' = nops + 1
  /\ UNCHANGED <<strs, parserVars, colHeap>>

RemoveConstraint(t, name) ==
  /\ CanCall(t)
  /\ LET r == removeConstraint(heap, models[t], name)
     IN /\ models' = [models EXCEPT ![t] = r.d]
        /\ heap' = r.heap
        /\ last' = [op |-> "removeConstraint", target |-> t, name |-> name,
                    ret |-> r.ret, pre |-> Views]
  /\ nops' = nops + 1
  /\ UNCHANGED <<strs, parserVars, colHeap>>

RemoveColumn(t, name) ==
  /\ CanCall(t)
  /\ LET r == removeColumn(heap, models[t], name)
     IN /\ models' = [models EXCEPT ![t] = r.d]
        /\ heap' = r.heap
        /\ last' = [op |-> "removeColumn", target |-> t, name |-> name,
                    ret |-> r.ret, pre |-> Views]
  /\ nops' = nops + 1
  /\ UNCHANGED <<strs, parserVars, colHeap>>

Clone(t) ==
  /\ CanCall(t)
  /\ Len(models) < MaxModels
  /\ LET r == clone(heap, colHeap, models[t])
     IN /\ models' = Append(models, r.d)
        /\ heap' = r.heap
        /\ colHeap' = r.colHeap
        /\ last' = [op |-> "clone", target |-> t, ret |-> Len(models) + 1,
                    pre |-> Views]
  /\ nops' = nops + 1
  /\ UNCHANGED <<strs, parserVars>>

Call ==
  \E t \in 1..MaxModels :
    \/ \E dst \in NewNames, src \in OldNames : RenameTable(t, dst, src)
    \/ \E name \in ConstraintNames, sql \in ConstraintTexts : AddConstraint(t, name, sql)
    \/ \E name \in ConstraintNames : RemoveConstraint(t, name)
    \/ \E name \in ColumnArgs : RemoveColumn(t, name)
    \/ Clone(t)

InitModel ==
  /\ strs \in ModelStrs
  /\ InitParser

NextModel ==
  \/ Next
  \/ Call

SpecModel == InitModel /\ [][NextModel]_vars


(***************************************************************************)
(* Reference definitions used to state the claims                          *)
(***************************************************************************)
QuoteChars == {"BQ", "\"", "'"}

Max(S) == CHOOSE i \in S : \A j \in S : i >= j

Count(s, c) == Cardinality({i \in 1..Len(s) : s[i] = c})

RECURSIVE SumCount(_, _)
SumCount(ss, c) == IF ss = <<>> THEN 0 ELSE Count(ss[1], c) + SumCount(Tail(ss), c)

\* index of the bracket that opens the body of statement s: the first "("
\* after the closing quote of the table name (0 when there is none)
OpenAt(s) ==
  LET q1s == {i \in 1..Len(s) : s[i] \in QuoteChars}
      q1 == Min(q1s)
      q2s == {i \in (q1 + 1)..Len(s) : s[i] = s[q1]}
      q2 == Min(q2s)
      ps == {i \in (q2 + 1)..Len(s) : s[i] = "("}
  IN IF q1s = {} THEN 0 ELSE IF q2s = {} THEN 0 ELSE IF ps = {} THEN 0 ELSE Min(ps)

\* the nesting level at which character i of s is read, counted from the
\* opening bracket at index open
LevelAt(s, open, i) ==
  1 + Cardinality({k \in (open + 1)..(i - 1) : s[k] = "("})
    - Cardinality({k \in (open + 1)..(i - 1) : s[k] = ")"})

\* index of the bracket that closes the body (0 when there is none)
CloseAt(s, open) ==
  LET cs == {i \in (open + 1)..Len(s) : s[i] = ")" /\ LevelAt(s, open, i) = 1}
  IN IF cs = {} THEN 0 ELSE Min(cs)

TopCommas(s, open, close) ==
  {i \in (open + 1)..(close - 1) : s[i] = "," /\ LevelAt(s, open, i) = 1}

NestedCommas(s, open, close) ==
  {i \in (open + 1)..(close - 1) : s[i] = "," /\ LevelAt(s, open, i) >= 2}

\* the raw texts between the level-1 commas, the last one only when not empty
RECURSIVE Segments(_, _, _, _)
Segments(s, from, close, commas) ==
  IF commas = {}
  THEN (IF from <= close - 1 THEN <<SubSeq(s, from, close - 1)>> ELSE <<>>)
  ELSE LET c == Min(commas)
       IN <<SubSeq(s, from, c - 1)>> \o Segments(s, c + 1, close, commas \ {c})

TrimAll(ss) == [i \in 1..Len(ss) |-> TrimSpace(ss[i])]

\* C2: when parseTableFields returns its fields, their number is the number
\* of commas read at nesting level 1 plus one for a non-empty last field,
\* the fields are the trimmed texts between those commas, and every comma
\* read at nesting level 2 or deeper is inside a field.
C2_TopLevelSplit ==
  pc = "columns" =>
    LET open == OpenAt(input)
        close == CloseAt(input, open)
        top == TopCommas(input, open, close)
        lastFrom == Max(top \cup {open}) + 1
    IN /\ open > 0 /\ close > 0 /\ pos = close
       /\ Len(fields) = Cardinality(top) + (IF lastFrom <= close - 1 THEN 1 ELSE 0)
       /\ fields = TrimAll(Segments(input, open + 1, close, top))
       /\ SumCount(fields, ",") = Cardinality(NestedCommas(input, open, close))

C2_Witness ==
  /\ pc = "columns"
  /\ TopCommas(input, OpenAt(input), CloseAt(input, OpenAt(input))) # {}
  /\ NestedCommas(input, OpenAt(input), CloseAt(input, OpenAt(input))) # {}
  /\ Len(fields) = 2

\* C3: a skip loop that observes the end of input stops: the step it takes
\* there ends the call (with an error), it is not another iteration.
C3_SkipStopsAtEndOfInput ==
  [][(pc \in {"skipName", "skipParen"} /\ peek(input, pos) = NUL)
       => pc' \in {"failed", "done"}]_vars

Mutators == {"renameTable", "addConstraint", "removeConstraint", "removeColumn"}

CurrentView(i) == View(heap, colHeap, models[i])

\* C4: renameTable fails exactly when the quoted old name does not occur in
\* the head; when it occurs the head becomes the old head with its first
\* occurrence replaced by the quoted new name; on failure the head is kept.
C4_RenameFailsIffAbsent ==
  last.op = "renameTable" =>
    LET old == last.pre[last.target].head
        new == models[last.target].head
        at == Index(old, Quoted(last.src))
    IN /\ last.failed <=> at < 0
       /\ at >= 0 => new = SubSeq(old, 1, at) \o Quoted(last.dst)
                           \o SubSeq(old, at + Len(Quoted(last.src)) + 1, Len(old))
       /\ last.failed => new = old

\* C5: the head of every model is CREATE TABLE followed by one quoted name:
\* it holds exactly two backquote characters.
C5_HeaderCanonical ==
  \A i \in 1..Len(models) :
    LET h == models[i].head
    IN /\ HasPrefix(h, <<"C","R","E","A","T","E"," ","T","A","B","L","E"," ","BQ">>)
       /\ h[Len(h)] = "BQ"
       /\ Count(h, "BQ") = 2

\* C6: a clone shows the head, fields and columns of its original, and a call
\* of renameTable, addConstraint, removeConstraint or removeColumn on one
\* model leaves what every other model shows, and compiles to, unchanged.
C6_CloneIndependence ==
  /\ last.op = "clone" =>
       /\ CurrentView(last.ret) = last.pre[last.target]
       /\ CurrentView(last.target) = last.pre[last.target]
  /\ last.op \in Mutators =>
       \A j \in 1..Len(models) :
         j # last.target => CurrentView(j) = last.pre[j]

C6_Witness ==
  /\ Len(models) >= 2
  /\ last.op \in {"addConstraint", "removeConstraint", "removeColumn"}
  /\ CurrentView(last.target).fields # last.pre[last.target].fields
  /\ \E j \in 1..Len(models) :
       j # last.target /\ CurrentView(j).fields # CurrentView(last.target).fields

\* a field that starts with CONSTRAINT in any letter case and contains name
NamesConstraint(field, name) ==
  /\ Len(field) >= 10
  /\ EqualFold(SubSeq(field, 1, 10), <<"c","o","n","s","t","r","a","i","n","t">>)
  /\ \E i \in 0..(Len(field) - Len(name)) : SubSeq(field, i + 1, i + Len(name)) = name

\* C7: addConstraint replaces, at its index, the first field that names the
\* constraint and keeps the number of fields and every other field; without
\* such a field it appends the text as the new last field.
C7_ConstraintUpsert ==
  last.op = "addConstraint" =>
    LET before == last.pre[last.target].fields
        after == CurrentView(last.target).fields
        hits == {i \in 1..Len(before) : NamesConstraint(before[i], last.name)}
    IN IF hits # {}
       THEN /\ Len(after) = Len(before)
            /\ after[Min(hits)] = last.sql
            /\ \A i \in 1..Len(before) : i # Min(hits) => after[i] = before[i]
       ELSE after = Append(before, last.sql)

C7_Witness ==
  /\ last.op = "addConstraint"
  /\ LET before == last.pre[last.target].fields
         hits == {i \in 1..Len(before) : NamesConstraint(before[i], last.name)}
     IN /\ Cardinality(hits) >= 2
        /\ before[Min(hits)] # last.sql
        /\ Min(hits) < Len(before)

\* the first whitespace-delimited token of a field without the quote
\* characters around it
RECURSIVE StripQuotes(_)
StripQuotes(t) ==
  IF t # <<>> /\ t[1] \in QuoteChars THEN StripQuotes(Tail(t))
  ELSE IF t # <<>> /\ t[Len(t)] \in QuoteChars THEN StripQuotes(SubSeq(t, 1, Len(t) - 1))
  ELSE t

RECURSIVE FirstToken(_)
FirstToken(f) ==
  IF f = <<>> THEN <<>>
  ELSE IF IsSpace(f[1]) THEN FirstToken(Tail(f))
  ELSE LET sp == {i \in 1..Len(f) : IsSpace(f[i])}
       IN IF sp = {} THEN f ELSE SubSeq(f, 1, Min(sp) - 1)

NamesColumn(f, name) == FirstToken(f) # <<>> /\ StripQuotes(FirstToken(f)) = name

\* the compiled text of a view
Compiled(v) ==
  IF v.fields = <<>> THEN v.head
  ELSE v.head \o <<" ","(">> \o Join(v.fields, <<",">>) \o <<")">>

\* C8: removeColumn returns true exactly when some field's name token equals
\* the name; it then removes the first such field only; otherwise the fields,
\* and the compiled text, are as before.
C8_RemoveColumn ==
  last.op = "removeColumn" =>
    LET before == last.pre[last.target].fields
        after == CurrentView(last.target).fields
        hits == {i \in 1..Len(before) : NamesColumn(before[i], last.name)}
    IN /\ last.ret <=> hits # {}
       /\ hits # {} => after = Without(before, Min(hits))
       /\ hits = {} =>
            /\ after = before
            /\ compile(heap, models[last.target]) = Compiled(last.pre[last.target])

C8_Witness ==
  /\ last.op = "removeColumn"
  /\ last.ret
  /\ LET before == last.pre[last.target].fields
     IN Cardinality({i \in 1..Len(before) : NamesColumn(before[i], last.name)}) >= 2


(***************************************************************************)
(* Reference reading of a CREATE TABLE statement, in which a bracket or a  *)
(* comma inside a quoted literal is part of the literal                    *)
(***************************************************************************)
\* index of the first character of s at or after i that is not a space
SkipSpaces(s, i) ==
  LET ns == {k \in i..Len(s) : ~IsSpace(s[k])}
  IN IF ns = {} THEN Len(s) + 1 ELSE Min(ns)

\* the indices of s, from i on, that lie in a quoted literal (its two
\* quote characters included); a literal that is never closed runs to the
\* end of s and beyond it
RECURSIVE Literals(_, _)
Literals(s, i) ==
  LET os == {k \in i..Len(s) : s[k] \in QuoteChars}
      o == Min(os)
      cs == {k \in (o + 1)..Len(s) : s[k] = s[o]}
  IN IF os = {} THEN {}
     ELSE IF cs = {} THEN o..(Len(s) + 1)
     ELSE (o..Min(cs)) \cup Literals(s, Min(cs) + 1)

\* the bracket depth at which character i is read, brackets in literals
\* not counted
RefLevel(s, open, lit, i) ==
  1 + Cardinality({k \in (open + 1)..(i - 1) : k \notin lit /\ s[k] = "("})
    - Cardinality({k \in (open + 1)..(i - 1) : k \notin lit /\ s[k] = ")"})

\* the reading of statement s: whether it is CREATE TABLE, spaces, a quoted
\* table name, spaces, and a bracketed body of non-empty definitions with
\* balanced brackets and closed literals; its name; its definitions, trimmed
RefParse(s) ==
  LET bad == [ok |-> FALSE, name |-> <<>>, defs |-> <<>>]
      n1 == SkipSpaces(s, 13)
      q2s == {k \in (n1 + 1)..Len(s) : s[k] = s[n1]}
      q2 == Min(q2s)
      open == SkipSpaces(s, q2 + 1)
      lit == Literals(s, open + 1)
      closes == {i \in (open + 1)..Len(s) :
                   i \notin lit /\ s[i] = ")" /\ RefLevel(s, open, lit, i) = 1}
      close == Min(closes)
      top == {i \in (open + 1)..(close - 1) :
                i \notin lit /\ s[i] = "," /\ RefLevel(s, open, lit, i) = 1}
      defs == TrimAll(Segments(s, open + 1, close, top))
  IN IF ~HasPrefix(ToUpper(s), CREATE_TABLE) THEN bad
     ELSE IF n1 = 13 \/ n1 > Len(s) THEN bad
     ELSE IF s[n1] \notin QuoteChars \/ q2s = {} THEN bad
     ELSE IF open > Len(s) THEN bad
     ELSE IF s[open] # "(" \/ closes = {} THEN bad
     ELSE [ok |-> /\ (Len(s) + 1) \notin lit
                  /\ SkipSpaces(s, close + 1) > Len(s)
                  /\ Len(defs) = Cardinality(top) + 1
                  /\ \A k \in 1..Len(defs) : defs[k] # <<>>,
           name |-> SubSeq(s, n1 + 1, q2 - 1),
           defs |-> defs]

\* C1: parseDDL of a valid CREATE TABLE statement succeeds, and its model has
\* the statement's top-level definitions, trimmed and in order, as fields and
\* compiles to CREATE TABLE, the quoted name and the definitions joined by
\* commas in brackets.
C1_RoundTrip ==
  (Len(strs) = 1 /\ RefParse(strs[1]).ok) =>
    /\ pc # "failed"
    /\ pc = "done" =>
         /\ CurrentView(1).fields = RefParse(strs[1]).defs
         /\ compile(heap, models[1]) =
              <<"C","R","E","A","T","E"," ","T","A","B","L","E"," ","BQ">> \o RefParse(strs[1]).name \o <<"BQ"," ","(">>
                \o Join(RefParse(strs[1]).defs, <<",">>) \o <<")">>

\* the text of typ before its first "(" and the text between that bracket
\* and the closing bracket that ends typ
BaseType(typ) == SubSeq(typ, 1, Min({i \in 1..Len(typ) : typ[i] = "("}) - 1)

InsideType(typ) ==
  LET o == Min({i \in 1..Len(typ) : typ[i] = "("})
  IN IF typ[Len(typ)] = ")" /\ Len(typ) > o
     THEN SubSeq(typ, o + 1, Len(typ) - 1)
     ELSE SubSeq(typ, o + 1, Len(typ))

\* C9: a column whose declared type holds a "(" has the text before the
\* first "(" as its data type, whatever is inside the brackets, and has a
\* length exactly when the inside is an integer, which is then the length.
C9_TypeAndLength ==
  pc = "done" =>
    \A i \in 1..Len(CurrentView(1).columns) :
      LET c == CurrentView(1).columns[i]
      IN (\E k \in 1..Len(c.ColumnType) : c.ColumnType[k] = "(") =>
           /\ c.DataType = BaseType(c.ColumnType)
           /\ c.LengthValid <=> Atoi(InsideType(c.ColumnType)).ok
           /\ c.LengthValid => c.Length = Atoi(InsideType(c.ColumnType)).val

\* offsets at which the keyword DEFAULT occurs in rest, in any letter case
DefaultAt(rest) ==
  {i \in 0..(Len(rest) - 7) : EqualFold(SubSeq(rest, i + 1, i + 7), <<"d","e","f","a","u","l","t">>)}

\* t without one pair of brackets around it
StripOneLayer(t) ==
  IF Len(t) >= 2 /\ t[1] = "(" /\ t[Len(t)] = ")" THEN SubSeq(t, 2, Len(t) - 1) ELSE t

\* C10: a column whose remainder holds DEFAULT in any letter case has as its
\* default the trimmed text after the first DEFAULT with one layer of
\* brackets removed, unless that text is NULL; any other column has none.
C10_DefaultValue ==
  pc = "done" =>
    LET entries == SelectSeq(CurrentView(1).fields, IsColumnEntry)
        columns == CurrentView(1).columns
    IN /\ Len(columns) = Len(entries)
       /\ \A i \in 1..Len(entries) :
            LET rest == RestOf(entries[i])
                text == TrimSpace(SubSeq(rest, Min(DefaultAt(rest)) + 8, Len(rest)))
            IN IF DefaultAt(rest) # {} /\ ~EqualFold(text, <<"n","u","l","l">>)
               THEN /\ columns[i].DefaultValid
                    /\ columns[i].Default = StripOneLayer(text)
               ELSE ~columns[i].DefaultValid

=============================================================================
